---------------------------- MODULE Spec2Model ----------------------------
(***************************************************************************)
(* A model of wolfictl's shared-object name check (pkg/checks/so_name.go)  *)
(* and of its pull-request client (pkg/gh/release.go).                     *)
(*                                                                         *)
(* Go strings are modelled as sequences of one-character strings, so that  *)
(* strings.Split, strings.TrimSpace, fmt.Sprintf and the regular           *)
(* expression `.so.*\d` are computed character by character, as the code   *)
(* computes them.                                                          *)
(***************************************************************************)
EXTENDS Integers, Sequences, FiniteSets, TLC

VARIABLES
    manifest,          \* the lines of the file o.PackageListFilename
    src,               \* ghost: the fields each manifest line was written from
    recipes,           \* melange configs in o.Dir: package name -> subpackage names, or unreadable
    disk,              \* o.PackagesDir: archive file name -> the archive
    index,             \* what apkContext.GetApkPackages() answers
    net,               \* the published repository: archive file name -> download outcome
    pc,                \* position in CheckSoName
    lineNo,            \* getNewPackages: number of manifest lines scanned
    rs,                \* getNewPackages: the map being filled
    newPackages,       \* CheckSoName: result of getNewPackages
    existingPackages,  \* CheckSoName: result of GetApkPackages
    todo,              \* CheckSoName: keys of newPackages the range loop has not visited
    soNameErrors,      \* CheckSoName: the accumulating lint.EvalRuleErrors
    result,            \* what CheckSoName returned
    fs,                \* the files under os.TempDir()
    log,               \* ghost: one entry per call of diff, in call order
    call,              \* a direct call of one function: its name and arguments
    ret,               \* what the direct call returned
    github,            \* the code-hosting server: its pull requests, how it answers, the requests it got
    pr,                \* the request handed to the pull-request client (pr.Retries)
    openPullRequests,  \* CheckExistingPullRequests: the listing it was answered with
    openPr             \* CheckExistingPullRequests: position of the range loop in the listing

vars == <<manifest, src, recipes, disk, index, net, pc, lineNo, rs, newPackages,
          existingPackages, todo, soNameErrors, result, fs, log, call, ret,
          github, pr, openPullRequests, openPr>>

envVars == <<manifest, src, recipes, disk, index, net>>
runVars == <<pc, lineNo, rs, newPackages, existingPackages, todo, soNameErrors,
             result, fs, log>>
callVars == <<call, ret>>
prVars == <<github, pr, openPullRequests, openPr>>

\* no pull-request operation is under way
NoPullRequests ==
    /\ github = [mode |-> "none", pulls |-> <<>>, requests |-> <<>>]
    /\ pr = [Retries |-> 0]
    /\ openPullRequests = <<>>
    /\ openPr = 0

-----------------------------------------------------------------------------
(* Bounds of the model. *)

\* longest manifest (in lines) the run and the manifest reader are given
MaxLines == 2

\* longest list of soname files handed to checkSonamesMatch directly
MaxSonames == 2

\* most files placed in the directory scanned directly by getSonameFiles
MaxDirFiles == 3

-----------------------------------------------------------------------------
(* Go strings. *)

Digits == {"0", "1", "2", "3", "4", "5", "6", "7", "8", "9"}

\* unicode.IsSpace, for the characters of the model's alphabet
IsSpace(c) == c \in {" ", "\t", "\n", "\r"}

\* byte order of the characters the model uses (ASCII)
Code(c) ==
    CASE c = "\t" -> 9  [] c = "\n" -> 10 [] c = "\r" -> 13 [] c = " " -> 32
      [] c = "-" -> 45  [] c = "." -> 46  [] c = "/" -> 47
      [] c = "0" -> 48  [] c = "1" -> 49  [] c = "2" -> 50  [] c = "3" -> 51
      [] c = "4" -> 52  [] c = "5" -> 53  [] c = "6" -> 54  [] c = "7" -> 55
      [] c = "8" -> 56  [] c = "9" -> 57
      [] c = "A" -> 65  [] c = "D" -> 68  [] c = "E" -> 69  [] c = "M" -> 77
      [] c = "R" -> 82  [] c = "_" -> 95
      [] c = "a" -> 97  [] c = "b" -> 98  [] c = "c" -> 99  [] c = "d" -> 100
      [] c = "e" -> 101 [] c = "f" -> 102 [] c = "g" -> 103 [] c = "h" -> 104
      [] c = "i" -> 105 [] c = "k" -> 107 [] c = "l" -> 108 [] c = "m" -> 109
      [] c = "n" -> 110 [] c = "o" -> 111 [] c = "p" -> 112 [] c = "r" -> 114
      [] c = "s" -> 115 [] c = "t" -> 116 [] c = "u" -> 117 [] c = "v" -> 118
      [] c = "w" -> 119 [] c = "x" -> 120 [] c = "y" -> 121 [] c = "|" -> 124
      [] OTHER -> 63

\* s[from..to], empty when from > to
Sub(s, from, to) == IF from > to THEN <<>> ELSE SubSeq(s, from, to)

\* a < b as Go compares strings
RECURSIVE StrLess(_, _)
StrLess(a, b) ==
    IF b = <<>> THEN FALSE
    ELSE IF a = <<>> THEN TRUE
    ELSE IF Head(a) = Head(b) THEN StrLess(Tail(a), Tail(b))
    ELSE Code(Head(a)) < Code(Head(b))

\* strings.HasPrefix / strings.HasSuffix
HasPrefix(s, p) == Len(s) >= Len(p) /\ Sub(s, 1, Len(p)) = p
HasSuffix(s, p) == Len(s) >= Len(p) /\ Sub(s, Len(s) - Len(p) + 1, Len(s)) = p

\* strings.TrimPrefix / strings.TrimSuffix: one occurrence removed, if present
TrimPrefix(s, p) == IF HasPrefix(s, p) THEN Sub(s, Len(p) + 1, Len(s)) ELSE s
TrimSuffix(s, p) == IF HasSuffix(s, p) THEN Sub(s, 1, Len(s) - Len(p)) ELSE s

\* strings.TrimSpace
RECURSIVE TrimLeft(_)
TrimLeft(s) == IF s # <<>> /\ IsSpace(Head(s)) THEN TrimLeft(Tail(s)) ELSE s
RECURSIVE TrimRight(_)
TrimRight(s) ==
    IF s # <<>> /\ IsSpace(s[Len(s)]) THEN TrimRight(Sub(s, 1, Len(s) - 1)) ELSE s
TrimSpace(s) == TrimRight(TrimLeft(s))

\* strings.Split(s, sep) for a one-character separator: always at least one field
RECURSIVE SplitFrom(_, _, _)
SplitFrom(s, sep, cur) ==
    IF s = <<>> THEN <<cur>>
    ELSE IF Head(s) = sep THEN <<cur>> \o SplitFrom(Tail(s), sep, <<>>)
    ELSE SplitFrom(Tail(s), sep, Append(cur, Head(s)))
Split(s, sep) == SplitFrom(s, sep, <<>>)

\* strings.Join
RECURSIVE Join(_, _)
Join(parts, sep) ==
    IF parts = <<>> THEN <<>>
    ELSE IF Len(parts) = 1 THEN parts[1]
    ELSE parts[1] \o sep \o Join(Tail(parts), sep)

\* filepath.Join(dir, rel) for clean operands
PathJoin(dir, rel) == dir \o <<"/">> \o rel

-----------------------------------------------------------------------------
(* The regular expression `.so.*\d` of getSonameFiles and checkSonamesMatch: *)
(* any character but a newline, then "so", then any characters but a       *)
(* newline, then an ASCII digit.  Go returns the leftmost match and, of the *)
(* matches that start there, the one whose `.*` is longest.                *)

\* where the longest match that starts before position k ends: the last digit
\* at or after k that no newline separates from k (best when there is none)
RECURSIVE regEnd(_, _, _)
regEnd(s, k, best) ==
    IF k > Len(s) THEN best
    ELSE IF s[k] \in Digits THEN regEnd(s, k + 1, k)
    ELSE IF s[k] = "\n" THEN best
    ELSE regEnd(s, k + 1, best)

\* the first match at or after position i as <<start, end>>; <<0, 0>> when
\* there is none
RECURSIVE regFindFrom(_, _)
regFindFrom(s, i) ==
    IF i + 3 > Len(s) THEN <<0, 0>>
    ELSE IF /\ s[i] # "\n"
            /\ s[i + 1] = "s"
            /\ s[i + 2] = "o"
            /\ regEnd(s, i + 3, 0) > 0
         THEN <<i, regEnd(s, i + 3, 0)>>
    ELSE regFindFrom(s, i + 1)

regFindIndex(s) == regFindFrom(s, 1)

\* reg.FindString(s): the text of the first match, "" when there is none
regFindString(s) ==
    LET m == regFindIndex(s) IN IF m[1] = 0 THEN <<>> ELSE Sub(s, m[1], m[2])

\* reg.Split(s, -1)[0]: the text before the first match, s when there is none
regSplitFirst(s) ==
    LET m == regFindIndex(s) IN IF m[1] = 0 THEN s ELSE Sub(s, 1, m[1] - 1)

-----------------------------------------------------------------------------------------------------------------------------------------------------
(* The file tree under os.TempDir().  A path of the tree is the sequence   *)
(* of its elements ("/tmp/usr/lib" is <<"", "tmp", "usr", "lib">>); fs is  *)
(* the set of the paths of the files, and the directories are their        *)
(* ancestors.  PathString gives the string the code handles.               *)

TempDir == <<<<>>, <<"t", "m", "p">>>>

PathString(path) == Join(path, <<"/">>)

\* filepath.Base
PathBase(path) == path[Len(path)]

\* path lies below directory dir
Under(dir, path) == Len(path) > Len(dir) /\ SubSeq(path, 1, Len(dir)) = dir

\* everything filepath.Walk(dir) visits: dir, and the files and directories below it
WalkNodes(dir, files) ==
    LET below == {f \in files : Under(dir, f)}
    IN {dir} \cup below
       \cup UNION {{SubSeq(f, 1, k) : k \in (Len(dir) + 1)..(Len(f) - 1)} : f \in below}

\* filepath.Walk visits a directory, then its entries in lexical order of
\* their names, each entry with everything below it
RECURSIVE WalkLess(_, _)
WalkLess(a, b) ==
    IF b = <<>> THEN FALSE
    ELSE IF a = <<>> THEN TRUE
    ELSE IF Head(a) = Head(b) THEN WalkLess(Tail(a), Tail(b))
    ELSE StrLess(Head(a), Head(b))

RECURSIVE WalkOrder(_)
WalkOrder(nodes) ==
    IF nodes = {} THEN <<>>
    ELSE LET first == CHOOSE x \in nodes : \A y \in nodes \ {x} : WalkLess(x, y)
         IN <<first>> \o WalkOrder(nodes \ {first})

\* the walk callback of getSonameFiles: path is appended when the expression
\* matches its last element
sonameSelected(path) == regFindString(PathBase(path)) # <<>>

\* fileList after the walk has visited paths in this order
RECURSIVE walkAppend(_)
walkAppend(paths) ==
    IF paths = <<>> THEN <<>>
    ELSE (IF sonameSelected(Head(paths)) THEN <<PathString(Head(paths))>> ELSE <<>>)
         \o walkAppend(Tail(paths))

\* getSonameFiles(dir): the callback never returns an error, so neither does Walk
getSonameFiles(dir, files) == walkAppend(WalkOrder(WalkNodes(dir, files)))

-----------------------------------------------------------------------------
(* Errors.  nil is Nil; an error is a record with the text of its message  *)
(* in kind and the values formatted into it in the other fields.           *)

Nil == [kind |-> "nil"]

\* a Go map with string keys: a function on the set of its keys
EmptyMap == <<>>
MapPut(m, k, v) == (k :> v) @@ m

\* checkSonamesMatch, first loop: existingSonameMap[name] = version
RECURSIVE existingSonameMap(_, _)
existingSonameMap(files, m) ==
    IF files = <<>> THEN m
    ELSE LET filename == Head(files)
             name == regSplitFirst(filename)
             version == regFindString(filename)
         IN existingSonameMap(Tail(files), MapPut(m, name, version))

\* checkSonamesMatch, second loop
RECURSIVE compareSonames(_, _)
compareSonames(files, m) ==
    IF files = <<>> THEN Nil
    ELSE LET filename == Head(files)
             name == regSplitFirst(filename)
             version == regFindString(filename)
             \* a missing key reads as ""
             existingVersion == IF name \in DOMAIN m THEN m[name] ELSE <<>>
         IN IF existingVersion = <<>> THEN compareSonames(Tail(files), m)
            ELSE IF existingVersion # version
                 THEN [kind |-> "soname version check failed", name |-> name,
                       existing |-> existingVersion, new |-> version]
            ELSE compareSonames(Tail(files), m)

\* checkSonamesMatch as it would be if the first entry of a base-name were
\* kept in existingSonameMap instead of the last
RECURSIVE firstSonameMap(_, _)
firstSonameMap(files, m) ==
    IF files = <<>> THEN m
    ELSE LET name == regSplitFirst(Head(files))
         IN firstSonameMap(Tail(files),
                IF name \in DOMAIN m THEN m
                ELSE MapPut(m, name, regFindString(Head(files))))

checkSonamesMatchFirstWins(existingSonameFiles, newSonameFiles) ==
    compareSonames(newSonameFiles, firstSonameMap(existingSonameFiles, EmptyMap))

checkSonamesMatch(existingSonameFiles, newSonameFiles) ==
    compareSonames(newSonameFiles, existingSonameMap(existingSonameFiles, EmptyMap))

-----------------------------------------------------------------------------
(* getNewPackages and addSubpackages. *)

\* bufio.ScanLines: the token is the line without its end-of-line marker,
\* and without one trailing carriage return
scanText(line) == TrimSuffix(line, <<"\r">>)

\* scanLine as it would be if the .apk suffix were left on the epoch
scanLineKeepsSuffix(m, text) ==
    IF TrimSpace(text) = <<>> THEN [rs |-> m, err |-> Nil]
    ELSE LET parts == Split(text, "|") IN
         IF Len(parts) # 3
         THEN [rs |-> m,
               err |-> [kind |-> "expected 3 parts but found %d when scanning %s",
                        found |-> Len(parts), text |-> text]]
         ELSE LET versionParts == Split(parts[3], "-") IN
              IF Len(versionParts) # 2
              THEN [rs |-> m,
                    err |-> [kind |-> "expected 2 version parts but found %d",
                             found |-> Len(versionParts)]]
              ELSE [rs |-> MapPut(m, parts[2],
                                  [Version |-> versionParts[1],
                                   Epoch |-> TrimPrefix(versionParts[2], <<"r">>),
                                   Arch |-> parts[1]]),
                    err |-> Nil]

\* the body of the scanning loop for one token: the map afterwards, and the
\* error the function returns from inside the loop (Nil: the loop goes on)
scanLine(m, text) ==
    IF TrimSpace(text) = <<>> THEN [rs |-> m, err |-> Nil]
    ELSE LET parts == Split(text, "|") IN
         IF Len(parts) # 3
         THEN [rs |-> m,
               err |-> [kind |-> "expected 3 parts but found %d when scanning %s",
                        found |-> Len(parts), text |-> text]]
         ELSE LET versionParts == Split(parts[3], "-") IN
              IF Len(versionParts) # 2
              THEN [rs |-> m,
                    err |-> [kind |-> "expected 2 version parts but found %d",
                             found |-> Len(versionParts)]]
              ELSE LET arch == parts[1]
                       packageName == parts[2]
                       version == versionParts[1]
                       epoch == TrimSuffix(TrimPrefix(versionParts[2], <<"r">>),
                                           <<".", "a", "p", "k">>)
                   IN [rs |-> MapPut(m, packageName,
                                     [Version |-> version, Epoch |-> epoch, Arch |-> arch]),
                       err |-> Nil]

\* melange.ReadMelangeConfig(o.Dir/<name>.yaml): the recipe, or a failure when
\* the file is missing or does not parse
readMelangeConfig(name) ==
    IF name \in DOMAIN recipes THEN recipes[name]
    ELSE [ok |-> FALSE, Subpackages |-> <<>>]

\* the inner loop of addSubpackages: every subpackage name gets the parent's record
RECURSIVE putSubpackages(_, _, _)
putSubpackages(out, subs, apkPackage) ==
    IF subs = <<>> THEN out
    ELSE putSubpackages(MapPut(out, Head(subs), apkPackage), Tail(subs), apkPackage)

\* the outer loop of addSubpackages, ranging over m in the order given
RECURSIVE rangeSubpackages(_, _, _)
rangeSubpackages(out, m, order) ==
    IF order = <<>> THEN out
    ELSE LET melangePackageName == Head(order)
             c == readMelangeConfig(melangePackageName)
         IN IF ~c.ok THEN rangeSubpackages(out, m, Tail(order))
            ELSE rangeSubpackages(
                     putSubpackages(out, c.Subpackages, m[melangePackageName]),
                     m, Tail(order))

\* addSubpackages as it would be if a key already in the map were kept
RECURSIVE putMissingSubpackages(_, _, _)
putMissingSubpackages(out, subs, apkPackage) ==
    IF subs = <<>> THEN out
    ELSE putMissingSubpackages(
             IF Head(subs) \in DOMAIN out THEN out
             ELSE MapPut(out, Head(subs), apkPackage),
             Tail(subs), apkPackage)

RECURSIVE rangeMissingSubpackages(_, _, _)
rangeMissingSubpackages(out, m, order) ==
    IF order = <<>> THEN out
    ELSE LET c == readMelangeConfig(Head(order))
         IN IF ~c.ok THEN rangeMissingSubpackages(out, m, Tail(order))
            ELSE rangeMissingSubpackages(
                     putMissingSubpackages(out, c.Subpackages, m[Head(order)]),
                     m, Tail(order))

addSubpackagesKeepsKeys(m, order) == rangeMissingSubpackages(m, m, order)

\* addSubpackages(m); order is the order in which Go's range visits the keys of m
addSubpackages(m, order) == rangeSubpackages(m, m, order)

\* the orders in which a range loop can visit the keys of a map
Orders(keys) ==
    {o \in [1..Cardinality(keys) -> keys] : \A i, j \in DOMAIN o : i # j => o[i] # o[j]}

-----------------------------------------------------------------------------
(* diff and downloadCurrentAPK. *)

\* fmt.Sprintf("%s-%s-r%s.apk", name, version, epoch) below o.PackagesDir/arch
newApkPath(name, apk) ==
    PathJoin(apk.Arch,
             name \o <<"-">> \o apk.Version \o <<"-", "r">> \o apk.Epoch
                  \o <<".", "a", "p", "k">>)

\* fmt.Sprintf("%s-%s.apk", p.Name, p.Version)
existingApkName(p) == p.Name \o <<"-">> \o p.Version \o <<".", "a", "p", "k">>

\* what the server and the local file system make of one download: "ok",
\* "transport" (Client.Get fails), "status404" (a response with a non-success
\* status), "createfail" (os.Create fails), "copyfail" (io.Copy fails)
downloadOutcome(fileName) ==
    IF fileName \in DOMAIN net THEN net[fileName].outcome ELSE "status404"

\* downloadCurrentAPK(newPackageName, dirCurrentApk): the error it returns and
\* the files afterwards.  The response's status is not looked at, and the
\* body is written to dirCurrentApk/<name> as it is: nothing is extracted.
downloadCurrentAPK(fileName, dirCurrentApk, files) ==
    LET outcome == downloadOutcome(fileName)
        target == Append(dirCurrentApk, fileName)
    IN CASE outcome = "transport" ->
              [err |-> [kind |-> "failed to get %s", url |-> fileName,
                        cause |-> [kind |-> "transport"]],
               fs |-> files]
         [] outcome = "createfail" ->
              [err |-> [kind |-> "create"], fs |-> files]
         [] outcome = "copyfail" ->
              [err |-> [kind |-> "copy"], fs |-> files \cup {target}]
         [] OTHER ->
              [err |-> Nil, fs |-> files \cup {target}]

\* the files tar.Untar may have written when it returns: all of a well-formed
\* archive, any part of a malformed one
untarWrites(archive) == IF archive.ok THEN {archive.files} ELSE SUBSET archive.files

\* diff(newPackageName, newAPK, existingPackages) run on the files `files` of
\* the temporary directory; written is what tar.Untar wrote.  Both
\* dirExistingApk and dirNewApk are os.TempDir().
diff(newPackageName, newAPK, existing, files, written) ==
    LET dirExistingApk == TempDir
        dirNewApk == TempDir
        filename == newApkPath(newPackageName, newAPK)
    IN
    IF filename \notin DOMAIN disk
    THEN [err |-> [kind |-> "failed to read %s", filename |-> filename,
                   cause |-> [kind |-> "open"]],
          fs |-> files, newSonameFiles |-> <<>>, existingSonameFiles |-> <<>>]
    ELSE
    LET fs1 == files \cup {dirNewApk \o f : f \in written} IN
    IF ~disk[filename].ok
    THEN [err |-> [kind |-> "failed to untar new apk", cause |-> [kind |-> "untar"]],
          fs |-> fs1, newSonameFiles |-> <<>>, existingSonameFiles |-> <<>>]
    ELSE
    LET newSonameFiles == getSonameFiles(dirNewApk, fs1) IN
    IF Len(newSonameFiles) = 0
    THEN [err |-> Nil, fs |-> fs1,
          newSonameFiles |-> newSonameFiles, existingSonameFiles |-> <<>>]
    ELSE IF newPackageName \notin DOMAIN existing
    THEN [err |-> Nil, fs |-> fs1,
          newSonameFiles |-> newSonameFiles, existingSonameFiles |-> <<>>]
    ELSE
    LET p == existing[newPackageName]
        existingFilename == existingApkName(p)
        dl == downloadCurrentAPK(existingFilename, dirExistingApk, fs1)
    IN
    IF dl.err # Nil
    THEN [err |-> [kind |-> "failed to download %s using base URL %s",
                   name |-> newPackageName, cause |-> dl.err],
          fs |-> dl.fs,
          newSonameFiles |-> newSonameFiles, existingSonameFiles |-> <<>>]
    ELSE
    LET existingSonameFiles == getSonameFiles(dirExistingApk, dl.fs)
        err == checkSonamesMatch(existingSonameFiles, newSonameFiles)
    IN
    IF err # Nil
    THEN [err |-> [kind |-> "soname files differ, this can cause an ABI break",
                   existingFiles |-> existingSonameFiles,
                   newFiles |-> newSonameFiles, cause |-> err],
          fs |-> dl.fs,
          newSonameFiles |-> newSonameFiles,
          existingSonameFiles |-> existingSonameFiles]
    ELSE [err |-> Nil, fs |-> dl.fs,
          newSonameFiles |-> newSonameFiles,
          existingSonameFiles |-> existingSonameFiles]

\* lint.EvalRuleErrors.WrapErrors: nil for an empty sequence, else one error
\* that holds every finding in order
WrapErrors(findings) ==
    IF findings = <<>> THEN Nil ELSE [kind |-> "findings", findings |-> findings]

-----------------------------------------------------------------------------
(* The steps of CheckSoName.                                               *)
(*   pc = "start"   before apkContext.GetApkPackages()                     *)
(*        "open"    in getNewPackages, before os.Open                      *)
(*        "scan"    in getNewPackages, in the scanning loop                *)
(*        "gotNew"  getNewPackages has returned (its values are in ret)    *)
(*        "loop"    in the range loop over newPackages                     *)
(*        "done"    CheckSoName has returned (its value is in result)      *)

None == [kind |-> "none"]

\* CheckSoName, lines 59-63
GetApkPackages ==
    /\ pc = "start"
    /\ IF index.ok
       THEN /\ existingPackages' = index.packages
            /\ pc' = "open"
            /\ result' = result
       ELSE /\ result' = [kind |-> "failed to get APK packages from URL %s",
                          cause |-> [kind |-> "index"]]
            /\ pc' = "done"
            /\ existingPackages' = existingPackages
    /\ UNCHANGED <<lineNo, rs, newPackages, todo, soNameErrors, fs, log>>
    /\ UNCHANGED <<prVars, envVars, callVars>>

\* getNewPackages, lines 92-100
OpenManifest ==
    /\ pc = "open"
    /\ IF manifest.exists
       THEN /\ pc' = "scan"
            /\ rs' = EmptyMap
            /\ lineNo' = 0
            /\ ret' = ret
       ELSE /\ pc' = "gotNew"
            /\ ret' = [rs |-> EmptyMap,
                       err |-> [kind |-> "opening file %s", cause |-> [kind |-> "open"]]]
            /\ UNCHANGED <<rs, lineNo>>
    /\ UNCHANGED <<newPackages, existingPackages, todo, soNameErrors, result, fs, log>>
    /\ UNCHANGED <<prVars, envVars, call>>

\* getNewPackages, lines 102-129: one turn of the scanning loop
ScanLine ==
    /\ pc = "scan"
    /\ lineNo < Len(manifest.lines)
    /\ \E r \in {scanLine(rs, scanText(manifest.lines[lineNo + 1]))} :
       IF r.err = Nil
       THEN /\ rs' = r.rs
            /\ lineNo' = lineNo + 1
            /\ UNCHANGED <<pc, ret>>
       ELSE /\ ret' = [rs |-> r.rs, err |-> r.err]
            /\ pc' = "gotNew"
            /\ UNCHANGED <<rs, lineNo>>
    /\ UNCHANGED <<newPackages, existingPackages, todo, soNameErrors, result, fs, log>>
    /\ UNCHANGED <<prVars, envVars, call>>

\* getNewPackages, lines 131-132
AddSubpackages ==
    /\ pc = "scan"
    /\ lineNo = Len(manifest.lines)
    /\ \E order \in Orders(DOMAIN rs) :
          ret' = [rs |-> addSubpackages(rs, order), err |-> Nil]
    /\ pc' = "gotNew"
    /\ UNCHANGED <<lineNo, rs, newPackages, existingPackages, todo, soNameErrors,
                   result, fs, log>>
    /\ UNCHANGED <<prVars, envVars, call>>

\* CheckSoName, lines 66-71
CheckNewPackages ==
    /\ pc = "gotNew"
    /\ call.fn = "CheckSoName"
    /\ IF ret.err # Nil
       THEN /\ result' = [kind |-> "failed to get new packages", cause |-> ret.err]
            /\ pc' = "done"
            /\ UNCHANGED <<newPackages, todo, soNameErrors>>
       ELSE /\ newPackages' = ret.rs
            /\ todo' = DOMAIN ret.rs
            /\ soNameErrors' = <<>>
            /\ pc' = "loop"
            /\ result' = result
    /\ UNCHANGED <<lineNo, rs, existingPackages, fs, log>>
    /\ UNCHANGED <<prVars, envVars, callVars>>

\* DiffPackage as it would be if the loop stopped at the first package whose
\* diff fails
DiffPackageStopAtFirst(packageName) ==
    /\ pc = "loop"
    /\ packageName \in todo
    /\ LET newAPK == newPackages[packageName]
           filename == newApkPath(packageName, newAPK)
           writes == IF filename \in DOMAIN disk THEN untarWrites(disk[filename])
                     ELSE {{}}
       IN \E written \in writes :
            \E d \in {diff(packageName, newAPK, existingPackages, fs, written)} :
            /\ fs' = d.fs
            /\ soNameErrors' = IF d.err # Nil
                               THEN Append(soNameErrors, [Error |-> d.err])
                               ELSE soNameErrors
            /\ log' = Append(log, [name |-> packageName, err |-> d.err,
                                   written |-> written,
                                   newSonameFiles |-> d.newSonameFiles,
                                   existingSonameFiles |-> d.existingSonameFiles])
            /\ todo' = IF d.err # Nil THEN {} ELSE todo \ {packageName}
    /\ UNCHANGED <<pc, lineNo, rs, newPackages, existingPackages, result>>
    /\ UNCHANGED <<prVars, envVars, callVars>>

\* CheckSoName, lines 73-82: one turn of the range loop, for the key packageName
DiffPackage(packageName) ==
    /\ pc = "loop"
    /\ packageName \in todo
    /\ LET newAPK == newPackages[packageName]
           filename == newApkPath(packageName, newAPK)
           writes == IF filename \in DOMAIN disk THEN untarWrites(disk[filename])
                     ELSE {{}}
       IN \E written \in writes :
            \E d \in {diff(packageName, newAPK, existingPackages, fs, written)} :
            /\ fs' = d.fs
            /\ soNameErrors' = IF d.err # Nil
                               THEN Append(soNameErrors, [Error |-> d.err])
                               ELSE soNameErrors
            /\ log' = Append(log, [name |-> packageName, err |-> d.err,
                                   written |-> written,
                                   newSonameFiles |-> d.newSonameFiles,
                                   existingSonameFiles |-> d.existingSonameFiles])
    /\ todo' = todo \ {packageName}
    /\ UNCHANGED <<pc, lineNo, rs, newPackages, existingPackages, result>>
    /\ UNCHANGED <<prVars, envVars, callVars>>

\* CheckSoName, line 84
ReturnErrors ==
    /\ pc = "loop"
    /\ todo = {}
    /\ result' = WrapErrors(soNameErrors)
    /\ pc' = "done"
    /\ UNCHANGED <<lineNo, rs, newPackages, existingPackages, todo, soNameErrors, fs, log>>
    /\ UNCHANGED <<prVars, envVars, callVars>>

-----------------------------------------------------------------------------
(* The inputs the model is run on. *)

s_x86_64 == <<"x", "8", "6", "_", "6", "4">>
s_aarch64 == <<"a", "a", "r", "c", "h", "6", "4">>
s_hello_world == <<"h", "e", "l", "l", "o", "-", "w", "o", "r", "l", "d">>
s_hello_world_dev == <<"h", "e", "l", "l", "o", "-", "w", "o", "r", "l", "d", "-", "d", "e", "v">>
s_libfoo == <<"l", "i", "b", "f", "o", "o">>
s_libbar == <<"l", "i", "b", "b", "a", "r">>
s_libbar_dev == <<"l", "i", "b", "b", "a", "r", "-", "d", "e", "v">>
s_apk == <<".", "a", "p", "k">>

\* files shipped in archives, as the sequences of their path elements
f_libfoo_so_1 == <<<<"u", "s", "r">>, <<"l", "i", "b">>, <<"l", "i", "b", "f", "o", "o", ".", "s", "o", ".", "1">>>>
f_libfoo_so_2 == <<<<"u", "s", "r">>, <<"l", "i", "b">>, <<"l", "i", "b", "f", "o", "o", ".", "s", "o", ".", "2">>>>
f_README == <<<<"R", "E", "A", "D", "M", "E">>>>

\* the version the published index lists for every package it lists
s_published == <<"0", ".", "0", ".", "1", "-", "r", "0">>

\* what a manifest line is written from: a record ARCH|NAME|VERSION-rEPOCH with
\* an optional .apk, possibly inside white space (kind "valid"), or the text
\* of a blank or malformed line
ValidLine(lead, arch, name, version, epoch, apk, trail) ==
    [kind |-> "valid", lead |-> lead, arch |-> arch, name |-> name,
     version |-> version, epoch |-> epoch, apk |-> apk, trail |-> trail,
     text |-> <<>>]

OtherLine(kind, text) ==
    [kind |-> kind, lead |-> <<>>, arch |-> <<>>, name |-> <<>>, version |-> <<>>,
     epoch |-> <<>>, apk |-> FALSE, trail |-> <<>>, text |-> text]

\* the line as the build writes it to the manifest
Render(l) ==
    IF l.kind = "valid"
    THEN l.lead \o l.arch \o <<"|">> \o l.name \o <<"|">> \o l.version
         \o <<"-", "r">> \o l.epoch \o (IF l.apk THEN s_apk ELSE <<>>) \o l.trail
    ELSE l.text

\* the record a valid line stands for
Expected(l) == [Arch |-> l.arch, Version |-> l.version, Epoch |-> l.epoch]

-----------------------------------------------------------------------------
(* Runs of CheckSoName: a manifest of up to MaxLines lines over three      *)
(* packages, one of them with a subpackage, and for every package one of   *)
(* the situations below.                                                   *)

RunNames == {s_hello_world, s_libfoo, s_libbar}

RunLine(name) ==
    CASE name = s_hello_world ->
           ValidLine(<<>>, s_x86_64, s_hello_world, <<"0", ".", "0", ".", "2">>, <<"0">>, TRUE, <<>>)
      [] name = s_libfoo ->
           ValidLine(<<>>, s_x86_64, s_libfoo, <<"1", ".", "2">>, <<"1">>, FALSE, <<>>)
      [] OTHER ->
           ValidLine(<<>>, s_aarch64, s_libbar, <<"0", ".", "1">>, <<"0">>, TRUE, <<>>)

BadRunLine == OtherLine("bad3", <<"x", "8", "6", "_", "6", "4", "|", "h", "e", "l", "l", "o", "-", "w", "o", "r", "l", "d">>)

RunLines == {RunLine(n) : n \in RunNames} \cup {BadRunLine}

\* libbar ships the subpackage libbar-dev, hello-world has none, and libfoo
\* has no readable recipe
RunRecipes ==
    (s_libbar :> [ok |-> TRUE, Subpackages |-> <<s_libbar_dev>>])
    @@ (s_hello_world :> [ok |-> TRUE, Subpackages |-> <<>>])

\* the package an archive name belongs to
ParentOf(name) == IF name = s_libbar_dev THEN s_libbar ELSE name

Situation(present, ok, files, indexed, outcome, published) ==
    [present |-> present, ok |-> ok, files |-> files, indexed |-> indexed,
     outcome |-> outcome, published |-> published]

\* new archive ships libfoo.so.2, the published one libfoo.so.1
SitBreak == Situation(TRUE, TRUE, {f_libfoo_so_2}, TRUE, "ok", {f_libfoo_so_1})
\* both ship libfoo.so.1
SitSame == Situation(TRUE, TRUE, {f_libfoo_so_1}, TRUE, "ok", {f_libfoo_so_1})
\* no shared objects
SitNoLib == Situation(TRUE, TRUE, {f_README}, TRUE, "ok", {f_README})
\* not published before, and the new archive is not where it should be
SitNewMissing == Situation(FALSE, TRUE, {}, FALSE, "ok", {})
\* not published before
SitNew == Situation(TRUE, TRUE, {f_libfoo_so_1}, FALSE, "ok", {})
\* the new archive does not extract
SitMalformed == Situation(TRUE, FALSE, {f_libfoo_so_1}, TRUE, "ok", {f_libfoo_so_1})
\* the download fails in one of four ways
SitTransport == Situation(TRUE, TRUE, {f_libfoo_so_1}, TRUE, "transport", {f_libfoo_so_1})
SitStatus == Situation(TRUE, TRUE, {f_libfoo_so_1}, TRUE, "status404", {})
SitCreate == Situation(TRUE, TRUE, {f_libfoo_so_1}, TRUE, "createfail", {f_libfoo_so_1})
SitCopy == Situation(TRUE, TRUE, {f_libfoo_so_1}, TRUE, "copyfail", {f_libfoo_so_1})

\* not published before, and the new archive does not extract
SitNewMalformed == Situation(TRUE, FALSE, {f_libfoo_so_1}, FALSE, "ok", {})

\* the situations each package is run in
SituationsOf(name) ==
    CASE name = s_hello_world -> {SitBreak, SitSame, SitNoLib, SitNewMissing}
      [] name = s_libfoo -> {SitSame, SitBreak, SitNew, SitMalformed, SitNewMalformed,
                             SitTransport}
      [] OTHER -> {SitSame, SitStatus, SitCreate, SitCopy}

ArchiveNames == RunNames \cup {s_libbar_dev}

\* o.PackagesDir when the packages are in the situations sit
DiskOf(sit) ==
    LET present == {n \in ArchiveNames : sit[ParentOf(n)].present}
        path(n) == newApkPath(n, Expected(RunLine(ParentOf(n))))
    IN [f \in {path(n) : n \in present} |->
          LET n == CHOOSE x \in present : path(x) = f
          IN [ok |-> sit[ParentOf(n)].ok, files |-> sit[ParentOf(n)].files]]

\* the published index when the packages are in the situations sit
IndexOf(sit) ==
    [n \in {x \in ArchiveNames : sit[ParentOf(x)].indexed} |->
       [Name |-> n, Version |-> s_published]]

\* the published repository when the packages are in the situations sit
NetOf(sit) ==
    LET indexed == {n \in ArchiveNames : sit[ParentOf(n)].indexed}
        file(n) == existingApkName([Name |-> n, Version |-> s_published])
    IN [f \in {file(n) : n \in indexed} |->
          LET n == CHOOSE x \in indexed : file(x) = f
          IN [outcome |-> sit[ParentOf(n)].outcome,
              files |-> sit[ParentOf(n)].published]]

\* the state of a run before its first step; the temporary directory is empty
RunStart ==
    /\ pc = "start"
    /\ NoPullRequests
    /\ lineNo = 0
    /\ rs = EmptyMap
    /\ newPackages = EmptyMap
    /\ existingPackages = EmptyMap
    /\ todo = {}
    /\ soNameErrors = <<>>
    /\ result = None
    /\ fs = {}
    /\ log = <<>>
    /\ ret = None

Init ==
    /\ call = [fn |-> "CheckSoName"]
    /\ RunStart
    /\ recipes = RunRecipes
    /\ \E mode \in {"run", "no index", "no manifest"} :
       \E k \in 0..MaxLines :
       \E lines \in [1..k -> RunLines] :
       \E chosen \in [{lines[i].name : i \in 1..k} \cap RunNames
                        -> UNION {SituationsOf(n) : n \in RunNames}] :
       \E sit \in {[n \in RunNames |->
                      IF n \in DOMAIN chosen THEN chosen[n] ELSE SitSame]} :
          /\ mode # "run" => k = 0
          /\ \A n \in DOMAIN chosen : chosen[n] \in SituationsOf(n)
          /\ src = lines
          /\ manifest = [exists |-> mode # "no manifest",
                         lines |-> [i \in 1..k |-> Render(lines[i])]]
          /\ index = [ok |-> mode # "no index", packages |-> IndexOf(sit)]
          /\ disk = DiskOf(sit)
          /\ net = NetOf(sit)

Next ==
    \/ GetApkPackages
    \/ OpenManifest
    \/ ScanLine
    \/ AddSubpackages
    \/ CheckNewPackages
    \/ \E packageName \in todo : DiffPackage(packageName)
    \/ ReturnErrors

Spec == Init /\ [][Next]_vars

-----------------------------------------------------------------------------
(* Properties of a run of CheckSoName. *)

\* the index and the manifest have been read, and the range loop was entered
ReadOK == index.ok /\ "err" \in DOMAIN ret /\ ret.err = Nil /\ pc \in {"loop", "done"}

\* the findings of the calls of diff recorded in l, in call order
RECURSIVE FindingsOf(_)
FindingsOf(l) ==
    IF l = <<>> THEN <<>>
    ELSE (IF Head(l).err # Nil THEN <<[Error |-> Head(l).err]>> ELSE <<>>)
         \o FindingsOf(Tail(l))

LogNames == {log[i].name : i \in DOMAIN log}

\* the last element of a path given as a string
LastElement(s) == LET parts == Split(s, "/") IN parts[Len(parts)]

\* finding f reports library lib with existing version old and new version new
Reports(f, lib, old, new) ==
    /\ f.Error.kind = "soname files differ, this can cause an ABI break"
    /\ LastElement(f.Error.cause.name) = lib
    /\ f.Error.cause.existing = old
    /\ f.Error.cause.new = new

s_so_1 == <<".", "s", "o", ".", "1">>
s_so_2 == <<".", "s", "o", ".", "2">>

\* the end-to-end scenario: the manifest is the one line
\* x86_64|hello-world|0.0.2-r0.apk, the new archive ships libfoo.so.2, and the
\* published hello-world archive ships libfoo.so.1
EndToEndScenario ==
    LET new == newApkPath(s_hello_world, Expected(RunLine(s_hello_world)))
        old == existingApkName([Name |-> s_hello_world, Version |-> s_published])
    IN /\ index.ok
       /\ manifest.exists
       /\ manifest.lines = <<Render(RunLine(s_hello_world))>>
       /\ new \in DOMAIN disk
       /\ disk[new] = [ok |-> TRUE, files |-> {f_libfoo_so_2}]
       /\ s_hello_world \in DOMAIN index.packages
       /\ old \in DOMAIN net
       /\ net[old] = [outcome |-> "ok", files |-> {f_libfoo_so_1}]

\* C1: in the end-to-end scenario CheckSoName returns an aggregate error with
\* exactly one finding, which names libfoo with existing version .so.1 and
\* new version .so.2.
C1_EndToEnd ==
    (pc = "done" /\ EndToEndScenario) =>
        /\ result # Nil
        /\ result.kind = "findings"
        /\ Len(result.findings) = 1
        /\ Reports(result.findings[1], s_libfoo, s_so_1, s_so_2)

\* the files of the temporary directory that come from a package's own new
\* archive and from its own published archive
OwnFiles(name) ==
    LET new == newApkPath(name, newPackages[name])
        old == IF name \in DOMAIN existingPackages
               THEN existingApkName(existingPackages[name]) ELSE <<>>
    IN (IF new \in DOMAIN disk
        THEN {PathString(TempDir \o f) : f \in disk[new].files} ELSE {})
       \cup (IF old \in DOMAIN net
             THEN {PathString(TempDir \o f) : f \in net[old].files}
                  \cup {PathString(Append(TempDir, old))}
             ELSE {})

\* C2: the result of a package's diff is the one diff gives in a run in which
\* no package was diffed before it, and the soname files scanned for it are
\* files of its own new archive and its own published archive only.
C2_NoCarriedState ==
    \A i \in DOMAIN log :
        LET e == log[i] IN
        /\ e.err = diff(e.name, newPackages[e.name], existingPackages, {}, e.written).err
        /\ \A k \in DOMAIN e.newSonameFiles : e.newSonameFiles[k] \in OwnFiles(e.name)
        /\ \A k \in DOMAIN e.existingSonameFiles :
              e.existingSonameFiles[k] \in OwnFiles(e.name)

\* C3: once the index and the manifest are read, diff is called exactly once
\* for every key of the expanded package set, the findings are those of the
\* failing calls in call order, and CheckSoName returns them all (nil when
\* there is none).
C3_NoEarlyStop ==
    ReadOK =>
        /\ \A i, j \in DOMAIN log : i # j => log[i].name # log[j].name
        /\ LogNames \cup todo = DOMAIN newPackages
        /\ LogNames \cap todo = {}
        /\ soNameErrors = FindingsOf(log)
        /\ pc = "done" =>
              /\ LogNames = DOMAIN newPackages
              /\ result = IF FindingsOf(log) = <<>> THEN Nil
                          ELSE [kind |-> "findings", findings |-> FindingsOf(log)]

\* a run over three packages in which the first and the third fail and the
\* second does not has returned
C3_Witness ==
    /\ pc = "done"
    /\ ReadOK
    /\ Len(log) = 3
    /\ log[1].err # Nil
    /\ log[2].err = Nil
    /\ log[3].err # Nil
    /\ result # Nil
    /\ Len(result.findings) = 2

\* C4: for a package that the published index does not list, diff returns
\* nil, whatever the state of its new archive.
C4_AbsentIsSkipped ==
    \A i \in DOMAIN log :
        log[i].name \notin DOMAIN existingPackages => log[i].err = Nil

\* the call of diff recorded in e met a failure of reading the new archive or
\* of the download: the new archive did not open or did not extract, or the
\* download was made and did not end well
MetFailure(e) ==
    LET filename == newApkPath(e.name, newPackages[e.name]) IN
    \/ filename \notin DOMAIN disk
    \/ ~disk[filename].ok
    \/ /\ Len(e.newSonameFiles) > 0
       /\ e.name \in DOMAIN existingPackages
       /\ downloadOutcome(existingApkName(existingPackages[e.name])) # "ok"

\* C11: a diff that met a failure to open or extract the new archive, a
\* transport error, a non-success HTTP status, or a failure to create or write
\* the downloaded file, returns an error, which is a finding of the aggregate.
C11_FailuresPropagate ==
    \A i \in DOMAIN log :
        MetFailure(log[i]) =>
            /\ log[i].err # Nil
            /\ \E k \in DOMAIN soNameErrors : soNameErrors[k].Error = log[i].err

-----------------------------------------------------------------------------
(* Direct calls of getNewPackages: manifests of up to MaxLines lines.      *)

\* a call of one function on its own: nothing of a run has happened
NoRun ==
    /\ lineNo = 0
    /\ rs = EmptyMap
    /\ newPackages = EmptyMap
    /\ existingPackages = EmptyMap
    /\ todo = {}
    /\ soNameErrors = <<>>
    /\ result = None
    /\ log = <<>>
    /\ ret = None

NoEnv ==
    /\ manifest = [exists |-> FALSE, lines |-> <<>>]
    /\ src = <<>>
    /\ recipes = EmptyMap
    /\ disk = EmptyMap
    /\ index = [ok |-> FALSE, packages |-> EmptyMap]
    /\ net = EmptyMap

ManifestNames == {s_hello_world, s_libfoo, s_libbar}

s_0_0_2 == <<"0", ".", "0", ".", "2">>
s_1_2 == <<"1", ".", "2">>

\* records without surrounding white space
PlainLines ==
    {ValidLine(<<>>, a, n, s_0_0_2, <<"0">>, apk, <<>>) :
        a \in {s_x86_64, s_aarch64}, n \in ManifestNames, apk \in BOOLEAN}
    \cup {ValidLine(<<>>, a, n, s_1_2, <<"1", "1">>, FALSE, <<>>) :
        a \in {s_x86_64, s_aarch64}, n \in ManifestNames}

\* records inside white space
SpacedLines ==
    {ValidLine(<<" ">>, s_x86_64, s_libfoo, s_0_0_2, <<"0">>, TRUE, <<>>),
     ValidLine(<<>>, s_x86_64, s_libfoo, s_0_0_2, <<"0">>, TRUE, <<" ">>),
     ValidLine(<<"\t">>, s_aarch64, s_libbar, s_1_2, <<"1", "1">>, FALSE, <<" ">>),
     ValidLine(<<>>, s_x86_64, s_libbar, s_0_0_2, <<"0">>, TRUE, <<"\r">>)}

BlankLines == {OtherLine("blank", <<>>), OtherLine("blank", <<" ", "\t">>)}

\* lines with 2 and with 4 fields, and lines whose third field has 1 and 3 parts
MalformedLines ==
    {OtherLine("bad3", <<"x", "8", "6", "_", "6", "4", "|", "h", "e", "l", "l", "o", "-", "w", "o", "r", "l", "d">>),
     OtherLine("bad3", <<"x", "8", "6", "_", "6", "4", "|", "l", "i", "b", "f", "o", "o", "|", "1", ".", "2", "-", "r", "1", "|", "x">>),
     OtherLine("bad2", <<"x", "8", "6", "_", "6", "4", "|", "h", "e", "l", "l", "o", "-", "w", "o", "r", "l", "d", "|", "0", ".", "0", ".", "2">>),
     OtherLine("bad2", <<"x", "8", "6", "_", "6", "4", "|", "l", "i", "b", "b", "a", "r", "|", "0", ".", "0", ".", "2", "-", "r", "0", "-", "1", ".", "a", "p", "k">>)}

ManifestLines == PlainLines \cup SpacedLines \cup BlankLines \cup MalformedLines

\* hello-world declares hello-world-dev and libfoo, libfoo declares
\* hello-world-dev too, and the recipe of libbar does not parse
ManifestRecipes ==
    (s_hello_world :> [ok |-> TRUE, Subpackages |-> <<s_hello_world_dev, s_libfoo>>])
    @@ (s_libfoo :> [ok |-> TRUE, Subpackages |-> <<s_hello_world_dev>>])
    @@ (s_libbar :> [ok |-> FALSE, Subpackages |-> <<>>])

InitManifest ==
    /\ call = [fn |-> "getNewPackages"]
    /\ pc = "open"
    /\ NoRun
    /\ NoPullRequests
    /\ fs = {}
    /\ recipes = ManifestRecipes
    /\ disk = EmptyMap
    /\ index = [ok |-> TRUE, packages |-> EmptyMap]
    /\ net = EmptyMap
    /\ \E exists \in BOOLEAN :
       \E k \in 0..MaxLines :
       \E lines \in [1..k -> ManifestLines] :
          /\ ~exists => k = 0
          /\ src = lines
          /\ manifest = [exists |-> exists, lines |-> [i \in 1..k |-> Render(lines[i])]]

NextManifest ==
    \/ OpenManifest
    \/ ScanLine
    \/ AddSubpackages

SpecManifest == InitManifest /\ [][NextManifest]_vars

-----------------------------------------------------------------------------
(* Properties of getNewPackages.  In a state with pc = "scan" and          *)
(* lineNo = i > 0 the loop has just finished its turn for line i.          *)

JustScanned == pc = "scan" /\ lineNo > 0

\* getNewPackages has returned from inside the loop, at line lineNo + 1
ReturnedAtLine ==
    pc = "gotNew" /\ "err" \in DOMAIN ret /\ ret.err # Nil /\ lineNo < Len(src)

\* the record of line l is in the map under l's name
Stored(l) == l.name \in DOMAIN rs /\ rs[l.name] = Expected(l)

\* C7: a line ARCH|NAME|VERSION-rEPOCH or ARCH|NAME|VERSION-rEPOCH.apk is
\* stored under NAME with Arch = ARCH, Version = VERSION and Epoch = EPOCH.
C7_ParseRecovers ==
    (/\ JustScanned
     /\ src[lineNo].kind = "valid"
     /\ src[lineNo].lead = <<>>
     /\ src[lineNo].trail = <<>>) => Stored(src[lineNo])

\* a line with the .apk suffix has just been stored
C7_Witness ==
    /\ JustScanned
    /\ src[lineNo].kind = "valid"
    /\ src[lineNo].lead = <<>>
    /\ src[lineNo].trail = <<>>
    /\ src[lineNo].apk
    /\ Stored(src[lineNo])

\* C8: a valid record inside leading or trailing white space is stored as
\* the same record without it, and a blank line is skipped without error.
C8_LinesTrimmed ==
    /\ (JustScanned /\ src[lineNo].kind = "valid") => Stored(src[lineNo])
    /\ ReturnedAtLine => src[lineNo + 1].kind # "blank"

\* C9: a line with the wrong number of fields, or of version parts, makes
\* getNewPackages return an error that holds the text of the line; it is
\* never passed over.
C9_MalformedIdentified ==
    /\ JustScanned => src[lineNo].kind \notin {"bad3", "bad2"}
    /\ (ReturnedAtLine /\ src[lineNo + 1].kind \in {"bad3", "bad2"}) =>
          /\ "text" \in DOMAIN ret.err
          /\ ret.err.text = manifest.lines[lineNo + 1]

\* addSubpackages has returned: rs is the map it was given, ret.rs its result
Expanded ==
    /\ call.fn = "getNewPackages"
    /\ pc = "gotNew"
    /\ "err" \in DOMAIN ret
    /\ ret.err = Nil

\* the subpackage names the readable recipe of package name declares
SubpackagesOf(name) ==
    LET c == readMelangeConfig(name)
    IN IF c.ok THEN {c.Subpackages[i] : i \in DOMAIN c.Subpackages} ELSE {}

\* the manifest packages that declare name as a subpackage
ParentsOf(name) == {parent \in DOMAIN rs : name \in SubpackagesOf(parent)}

\* C10 as stated: every top-level package keeps its own record, and every
\* subpackage carries the record of each package that declares it.
C10_Original ==
    Expanded =>
        \A parent \in DOMAIN rs :
            /\ parent \in DOMAIN ret.rs
            /\ ret.rs[parent] = rs[parent]
            /\ \A sub \in SubpackagesOf(parent) :
                  sub \in DOMAIN ret.rs /\ ret.rs[sub] = rs[parent]

\* C10 amended: the keys are the manifest's packages and the subpackages
\* they declare; a key that is declared as a subpackage carries the record
\* of one of the packages declaring it, and any other key carries its own.
C10_Expansion ==
    Expanded =>
        /\ DOMAIN ret.rs = DOMAIN rs \cup UNION {SubpackagesOf(parent) : parent \in DOMAIN rs}
        /\ \A key \in DOMAIN ret.rs :
              IF ParentsOf(key) # {}
              THEN \E parent \in ParentsOf(key) : ret.rs[key] = rs[parent]
              ELSE ret.rs[key] = rs[key]

\* hello-world and libfoo are in the manifest with different records:
\* hello-world-dev has two parents and libfoo is also a subpackage
C10_Witness ==
    /\ Expanded
    /\ s_hello_world \in DOMAIN rs
    /\ s_libfoo \in DOMAIN rs
    /\ rs[s_hello_world] # rs[s_libfoo]
    /\ s_hello_world_dev \in DOMAIN ret.rs
    /\ ret.rs[s_libfoo] = rs[s_hello_world]

-----------------------------------------------------------------------------
(* Direct calls of checkSonamesMatch, on lists of up to MaxSonames paths   *)
(* that getSonameFiles can return.                                         *)

SonamePaths ==
    {<<"/", "t", "m", "p", "/", "u", "s", "r", "/", "l", "i", "b", "/", "l", "i", "b", "f", "o", "o", ".", "s", "o", ".", "1">>,
     <<"/", "t", "m", "p", "/", "u", "s", "r", "/", "l", "i", "b", "/", "l", "i", "b", "f", "o", "o", ".", "s", "o", ".", "2">>,
     <<"/", "t", "m", "p", "/", "u", "s", "r", "/", "l", "i", "b", "/", "l", "i", "b", "f", "o", "o", ".", "s", "o", ".", "1", ".", "2", ".", "3">>,
     <<"/", "t", "m", "p", "/", "u", "s", "r", "/", "l", "i", "b", "/", "l", "i", "b", "b", "a", "r", ".", "s", "o", ".", "1">>,
     <<"/", "t", "m", "p", "/", "u", "s", "r", "/", "l", "i", "b", "/", "l", "i", "b", "b", "a", "r", ".", "s", "o", ".", "2">>}

SonameLists == UNION {[1..k -> SonamePaths] : k \in 0..MaxSonames}

InitMatch ==
    /\ pc = "direct"
    /\ NoRun
    /\ NoPullRequests
    /\ NoEnv
    /\ fs = {}
    /\ \E existing \in SonameLists :
       \E new \in SonameLists :
          call = [fn |-> "checkSonamesMatch", existing |-> existing, new |-> new]

CallCheckSonamesMatch ==
    /\ pc = "direct"
    /\ call.fn = "checkSonamesMatch"
    /\ ret = None
    /\ ret' = checkSonamesMatch(call.existing, call.new)
    /\ UNCHANGED <<prVars, envVars, runVars, call>>

NextMatch == CallCheckSonamesMatch

SpecMatch == InitMatch /\ [][NextMatch]_vars

\* base-name and version-suffix of a soname path
BaseName(f) == regSplitFirst(f)
VersionSuffix(f) == regFindString(f)

\* the version-suffix recorded for base-name b: that of the last entry of
\* the existing list with that base-name
RecordedSuffix(existing, b) ==
    LET at == {i \in DOMAIN existing : BaseName(existing[i]) = b}
        last == CHOOSE i \in at : \A j \in at : j <= i
    IN VersionSuffix(existing[last])

\* the entries of the new list whose base-name is among the existing ones
\* with another version-suffix recorded
Conflicts(existing, new) ==
    {i \in DOMAIN new :
        /\ \E j \in DOMAIN existing : BaseName(existing[j]) = BaseName(new[i])
        /\ VersionSuffix(new[i]) # RecordedSuffix(existing, BaseName(new[i]))}

Returned == pc = "direct" /\ ret # None

\* C5: checkSonamesMatch returns an error exactly when some new soname has
\* a base-name that occurs among the existing sonames with another
\* version-suffix recorded for it (the last existing entry wins), and the error
\* names that base-name, the recorded suffix and the new suffix.
C5_MatchIffConflict ==
    (Returned /\ call.fn = "checkSonamesMatch") =>
        LET bad == Conflicts(call.existing, call.new) IN
        /\ (ret # Nil) <=> (bad # {})
        /\ ret # Nil =>
              \E i \in bad :
                 /\ ret.kind = "soname version check failed"
                 /\ ret.name = BaseName(call.new[i])
                 /\ ret.existing = RecordedSuffix(call.existing, ret.name)
                 /\ ret.new = VersionSuffix(call.new[i])

\* the existing list holds a base-name twice with different suffixes, the
\* new list holds the first of them, and the call returned an error
C5_Witness ==
    /\ Returned
    /\ call.fn = "checkSonamesMatch"
    /\ Len(call.existing) = 2
    /\ BaseName(call.existing[1]) = BaseName(call.existing[2])
    /\ VersionSuffix(call.existing[1]) # VersionSuffix(call.existing[2])
    /\ call.new = <<call.existing[1]>>
    /\ ret # Nil

-----------------------------------------------------------------------------
(* Direct calls of getSonameFiles, on a temporary directory that holds up  *)
(* to MaxDirFiles files.                                                   *)

ScanFiles ==
    {TempDir \o <<<<"l", "i", "b", "f", "o", "o", ".", "s", "o", ".", "1">>>>,
     TempDir \o <<<<"l", "i", "b", "f", "o", "o", ".", "s", "o", ".", "1", ".", "2", ".", "3">>>>,
     TempDir \o <<<<"l", "i", "b", "f", "o", "o", ".", "s", "o">>>>,
     TempDir \o <<<<"l", "i", "b", "f", "o", "o", "_", "s", "o", "1">>>>,
     TempDir \o <<<<"s", "o", "1">>>>,
     TempDir \o <<<<"R", "E", "A", "D", "M", "E">>>>,
     TempDir \o <<<<"u", "s", "r">>, <<"l", "i", "b">>, <<"l", "i", "b", "b", "a", "r", ".", "s", "o", ".", "2">>>>}

InitScan ==
    /\ pc = "direct"
    /\ NoRun
    /\ NoPullRequests
    /\ NoEnv
    /\ call = [fn |-> "getSonameFiles", dir |-> TempDir]
    /\ fs \in {files \in SUBSET ScanFiles : Cardinality(files) <= MaxDirFiles}

CallGetSonameFiles ==
    /\ pc = "direct"
    /\ call.fn = "getSonameFiles"
    /\ ret = None
    /\ ret' = [fileList |-> getSonameFiles(call.dir, fs), err |-> Nil]
    /\ UNCHANGED <<prVars, envVars, runVars, call>>

NextScan == CallGetSonameFiles

SpecScan == InitScan /\ [][NextScan]_vars

\* name holds the three characters ".so" and a digit somewhere after them
HasDotSoThenDigit(name) ==
    \E i \in 1..Len(name) : \E j \in (i + 3)..Len(name) :
        /\ name[i] = "."
        /\ name[i + 1] = "s"
        /\ name[i + 2] = "o"
        /\ name[j] \in Digits

\* C6: a file is selected exactly when its name holds the literal ".so"
\* followed somewhere later by a digit.
C6_LiteralDotSo ==
    (Returned /\ call.fn = "getSonameFiles") =>
        \A f \in fs :
            (\E k \in DOMAIN ret.fileList : ret.fileList[k] = PathString(f))
                <=> HasDotSoThenDigit(PathBase(f))

-----------------------------------------------------------------------------
(* The scan and the comparison together, as diff runs them: both lists are *)
(* what getSonameFiles returns for a temporary directory that holds up to  *)
(* MaxDirFiles files, some of them below a directory whose own name the    *)
(* expression matches.                                                     *)

SplitFiles ==
    {TempDir \o <<<<"u", "s", "r">>, <<"l", "i", "b">>, <<"l", "i", "b", "f", "o", "o", ".", "s", "o", ".", "1">>>>,
     TempDir \o <<<<"u", "s", "r">>, <<"l", "i", "b">>, <<"l", "i", "b", "f", "o", "o", ".", "s", "o", ".", "2">>>>,
     TempDir \o <<<<"i", "s", "o", "9">>, <<"l", "i", "b", "f", "o", "o", ".", "s", "o", ".", "1">>>>,
     TempDir \o <<<<"i", "s", "o", "9">>, <<"l", "i", "b", "b", "a", "r", ".", "s", "o", ".", "2">>>>,
     TempDir \o <<<<"R", "E", "A", "D", "M", "E">>>>}

SplitTrees == {files \in SUBSET SplitFiles : Cardinality(files) <= MaxDirFiles}

InitSplit ==
    /\ pc = "direct"
    /\ NoRun
    /\ NoPullRequests
    /\ NoEnv
    /\ fs = {}
    /\ \E existingFiles \in SplitTrees :
       \E newFiles \in SplitTrees :
          call = [fn |-> "scanAndMatch", dir |-> TempDir,
                  existingFiles |-> existingFiles, newFiles |-> newFiles]

\* diff, lines 173 and 197-202: the two scans and the comparison of what
\* they return; existingSonameMap is the map the comparison builds
ScanAndMatch ==
    /\ pc = "direct"
    /\ call.fn = "scanAndMatch"
    /\ ret = None
    /\ \E newSonameFiles \in {getSonameFiles(call.dir, call.newFiles)} :
       \E existingSonameFiles \in {getSonameFiles(call.dir, call.existingFiles)} :
          ret' = [newSonameFiles |-> newSonameFiles,
                  existingSonameFiles |-> existingSonameFiles,
                  existingSonameMap |-> existingSonameMap(existingSonameFiles, EmptyMap),
                  err |-> checkSonamesMatch(existingSonameFiles, newSonameFiles)]
    /\ UNCHANGED <<prVars, envVars, runVars, call>>

NextSplit == ScanAndMatch

SpecSplit == InitSplit /\ [][NextSplit]_vars

\* the directory part of a path given as a string, with its final "/"
DirOf(s) == Sub(s, 1, Len(s) - Len(LastElement(s)))

\* the base-name and the version-suffix of the file's name, the base-name
\* kept with the directory the file is in
FileBaseName(s) == DirOf(s) \o regSplitFirst(LastElement(s))
FileVersionSuffix(s) == regFindString(LastElement(s))

\* C12: for every path the scanner returned, the pair used in the comparison
\* is the split of the file's name: the base-name is what precedes the first
\* match in the name of the file, the version-suffix is that match, and the
\* directories of the path have no part in the version-suffix.
C12_SplitOfFileName ==
    (Returned /\ call.fn = "scanAndMatch") =>
        /\ \A i \in DOMAIN ret.existingSonameFiles :
              LET f == ret.existingSonameFiles[i]
                  same == {k \in DOMAIN ret.existingSonameFiles :
                              FileBaseName(ret.existingSonameFiles[k]) = FileBaseName(f)}
              IN /\ FileBaseName(f) \in DOMAIN ret.existingSonameMap
                 /\ ret.existingSonameMap[FileBaseName(f)]
                       \in {FileVersionSuffix(ret.existingSonameFiles[k]) : k \in same}
        /\ ret.err # Nil =>
              \E j \in DOMAIN ret.newSonameFiles :
                 /\ ret.err.name = FileBaseName(ret.newSonameFiles[j])
                 /\ ret.err.new = FileVersionSuffix(ret.newSonameFiles[j])

-----------------------------------------------------------------------------
-----------------------------------------------------------------------------
(* The pull-request client (pkg/gh/release.go).  One step of the model is  *)
(* one activation of a function that calls itself to retry, or one turn of *)
(* the range loop over the listing.                                        *)

\* o.MaxPullRequestRetries
MaxPullRequestRetries == 2

\* most pull requests open on the server when a call starts
MaxOpen == 2

\* most rate-limit answers the server gives before it stops answering
MaxAnswers == MaxPullRequestRetries + 3

\* strings.Index(s, sep), counted from 1; 0 when sep is not in s
strIndex(s, sep) ==
    LET at == {i \in 1..(Len(s) - Len(sep) + 1) : SubSeq(s, i, i + Len(sep) - 1) = sep}
    IN IF at = {} THEN 0 ELSE CHOOSE i \in at : \A j \in at : i <= j

\* strings.SplitAfter(s, sep) for a non-empty sep: s cut after each sep
RECURSIVE SplitAfter(_, _)
SplitAfter(s, sep) ==
    LET i == strIndex(s, sep) IN
    IF i = 0 THEN <<s>>
    ELSE <<SubSeq(s, 1, i + Len(sep) - 1)>>
         \o SplitAfter(Sub(s, i + Len(sep), Len(s)), sep)

DigitValue(c) ==
    CASE c = "0" -> 0 [] c = "1" -> 1 [] c = "2" -> 2 [] c = "3" -> 3 [] c = "4" -> 4
      [] c = "5" -> 5 [] c = "6" -> 6 [] c = "7" -> 7 [] c = "8" -> 8 [] c = "9" -> 9

\* the number a string of digits denotes
RECURSIVE Atoi(_, _)
Atoi(s, acc) == IF s = <<>> THEN acc ELSE Atoi(Tail(s), 10 * acc + DigitValue(Head(s)))

\* version.NewVersion for versions written as dotted numbers with an optional
\* leading "v", and for text that does not start with a number (an error)
NewVersion(str) ==
    LET text == IF str # <<>> /\ Head(str) = "v" THEN Tail(str) ELSE str
        segs == Split(text, ".")
    IN IF \/ text = <<>>
          \/ \E k \in DOMAIN segs :
                segs[k] = <<>> \/ \E j \in DOMAIN segs[k] : segs[k][j] \notin Digits
       THEN [ok |-> FALSE]
       ELSE [ok |-> TRUE, segments |-> [k \in DOMAIN segs |-> Atoi(segs[k], 0)]]

\* Version.LessThan: segment by segment as numbers, a missing segment being 0
LessThan(a, b) ==
    LET n == IF Len(a.segments) > Len(b.segments) THEN Len(a.segments) ELSE Len(b.segments)
        seg(v, k) == IF k <= Len(v.segments) THEN v.segments[k] ELSE 0
    IN \E k \in 1..n :
          /\ seg(a, k) < seg(b, k)
          /\ \A j \in 1..(k - 1) : seg(a, j) = seg(b, j)

\* isPullRequestOldVersion(packageName, packageVersion, prTitle)
isPullRequestOldVersion(packageName, packageVersion, prTitle) ==
    IF HasPrefix(prTitle, packageName \o <<"/">>)
    THEN LET parts == SplitAfter(prTitle, packageName \o <<"/">>) IN
         IF Len(parts) # 2 THEN FALSE
         ELSE LET versionParts == SplitAfter(parts[2], <<" ">>)
                  currentVersion == TrimSpace(versionParts[1])
                  currentVersionSemver == NewVersion(currentVersion)
                  latestVersionSemver == NewVersion(packageVersion)
              IN IF ~currentVersionSemver.ok THEN FALSE
                 ELSE IF ~latestVersionSemver.ok THEN FALSE
                 ELSE LessThan(currentVersionSemver, latestVersionSemver)
    ELSE FALSE

\* o.checkRateLimiting(githubErr): whether the answer is a rate-limit error
checkRateLimiting(answer) == answer = "rate"

\* GetHTMLURL of pull request number n
HTMLURL(n) == <<"#", <<"0", "1", "2", "3", "4", "5", "6", "7", "8", "9">>[n + 1]>>

\* the answers the server can give to a request of kind op: "ok", "rate" (a
\* rate-limit error), "error" (another error answer), "transport" (no answer
\* at all: the client returns a nil response and an error).  A server in
\* mode "limited" answers every request with a rate-limit error, one in mode
\* "edits limited" every request but the listing.
Answers(op) ==
    {a \in (CASE github.mode = "limited" -> {"rate"}
              [] github.mode = "edits limited" ->
                   IF op = "List" THEN {"ok"} ELSE {"rate"}
              [] OTHER -> {"ok", "rate", "error", "transport"}) :
        a = "rate" => pr.Retries < MaxAnswers}

\* resp.Response on a nil resp: the call does not return, it panics
Panic == [url |-> <<>>, err |-> [kind |-> "panic: nil pointer dereference"]]

MaxRetriesError ==
    [url |-> <<>>,
     err |-> [kind |-> "failed max number of retries, tried %d max %d",
              tried |-> pr.Retries, max |-> MaxPullRequestRetries]]

\* the server after the request and its answer
Served(request, answer) ==
    [github EXCEPT
       !.requests = Append(@, request),
       !.pulls = IF answer # "ok" THEN @
                 ELSE IF request.op = "Create"
                 THEN Append(@, [Number |-> Len(@) + 1, Title |-> request.Title,
                                 State |-> "open", HTMLURL |-> HTMLURL(Len(@) + 1)])
                 ELSE IF request.op = "Edit"
                 THEN [@ EXCEPT ![request.Number].State = request.State]
                 ELSE @]

\* OpenPullRequest as it would be without the test of pr.Retries
OpenPullRequestUnbounded ==
    /\ pc = "direct"
    /\ call.fn = "OpenPullRequest"
    /\ ret = None
    /\ \E answer \in Answers("Create") :
          /\ github' = Served([op |-> "Create", Title |-> call.Title], answer)
          /\ pr' = IF checkRateLimiting(answer)
                   THEN [pr EXCEPT !.Retries = @ + 1] ELSE pr
          /\ ret' = CASE answer = "transport" -> Panic
                      [] answer = "rate" -> ret
                      [] answer = "error" ->
                           [url |-> <<>>,
                            err |-> [kind |-> "failed opening pull request",
                                     cause |-> [kind |-> "api"]]]
                      [] OTHER -> [url |-> HTMLURL(Len(github.pulls) + 1), err |-> Nil]
    /\ UNCHANGED <<openPullRequests, openPr>>
    /\ UNCHANGED <<envVars, runVars, call>>

\* OpenPullRequest, lines 59-96: one activation
OpenPullRequest ==
    /\ pc = "direct"
    /\ call.fn = "OpenPullRequest"
    /\ ret = None
    /\ IF pr.Retries > MaxPullRequestRetries
       THEN /\ ret' = MaxRetriesError
            /\ UNCHANGED <<github, pr>>
       ELSE \E answer \in Answers("Create") :
          /\ github' = Served([op |-> "Create", Title |-> call.Title], answer)
          /\ pr' = IF checkRateLimiting(answer)
                   THEN [pr EXCEPT !.Retries = @ + 1] ELSE pr
          /\ ret' = CASE answer = "transport" -> Panic
                      [] answer = "rate" -> ret
                      [] answer = "error" ->
                           [url |-> <<>>,
                            err |-> [kind |-> "failed opening pull request",
                                     cause |-> [kind |-> "api"]]]
                      [] OTHER -> [url |-> HTMLURL(Len(github.pulls) + 1), err |-> Nil]
    /\ UNCHANGED <<openPullRequests, openPr>>
    /\ UNCHANGED <<envVars, runVars, call>>

\* CheckExistingPullRequests, lines 99-119: one activation up to the listing
ListPullRequests ==
    /\ pc = "direct"
    /\ call.fn = "CheckExistingPullRequests"
    /\ ret = None
    /\ \E answer \in Answers("List") :
          /\ github' = Served([op |-> "List", State |-> "open"], answer)
          /\ pr' = IF checkRateLimiting(answer)
                   THEN [pr EXCEPT !.Retries = @ + 1] ELSE pr
          /\ CASE answer = "transport" ->
                    /\ ret' = Panic
                    /\ UNCHANGED <<pc, openPullRequests, openPr>>
               [] answer = "rate" ->
                    UNCHANGED <<pc, ret, openPullRequests, openPr>>
               [] answer = "error" ->
                    /\ ret' = [url |-> <<>>,
                               err |-> [kind |-> "failed listing pull requests",
                                        cause |-> [kind |-> "api"]]]
                    /\ UNCHANGED <<pc, openPullRequests, openPr>>
               [] OTHER ->
                    /\ openPullRequests' =
                          SelectSeq(github.pulls, LAMBDA p : p.State = "open")
                    /\ openPr' = 0
                    /\ pc' = "range"
                    /\ ret' = ret
    /\ UNCHANGED <<lineNo, rs, newPackages, existingPackages, todo, soNameErrors,
                   result, fs, log>>
    /\ UNCHANGED <<envVars, call>>

\* CheckExistingPullRequests, lines 121-132 and 140: one turn of the range
\* loop up to the call of closePullRequest, or the return after the loop
RangeOpenPr ==
    /\ pc = "range"
    /\ IF openPr = Len(openPullRequests)
       THEN /\ ret' = [url |-> <<>>, err |-> Nil]
            /\ pc' = "direct"
            /\ openPr' = openPr
       ELSE LET p == openPullRequests[openPr + 1] IN
            IF HasPrefix(p.Title, call.PackageName \o <<"/">> \o call.Version)
            THEN /\ ret' = [url |-> p.HTMLURL, err |-> Nil]
                 /\ pc' = "direct"
                 /\ openPr' = openPr
            ELSE /\ openPr' = openPr + 1
                 /\ pc' = IF isPullRequestOldVersion(call.PackageName, call.Version, p.Title)
                          THEN "close" ELSE "range"
                 /\ ret' = ret
    /\ UNCHANGED <<github, pr, openPullRequests>>
    /\ UNCHANGED <<lineNo, rs, newPackages, existingPackages, todo, soNameErrors,
                   result, fs, log>>
    /\ UNCHANGED <<envVars, call>>

\* closePullRequest, lines 143-163: one activation, and lines 133-137 when
\* it returns: an error is logged and the loop goes on
closePullRequest ==
    /\ pc = "close"
    /\ openPullRequests' = [openPullRequests EXCEPT ![openPr].State = "closed"]
    /\ \E answer \in Answers("Edit") :
          /\ github' = Served([op |-> "Edit",
                               Number |-> openPullRequests[openPr].Number,
                               State |-> "closed"], answer)
          /\ pr' = IF checkRateLimiting(answer)
                   THEN [pr EXCEPT !.Retries = @ + 1] ELSE pr
          /\ CASE answer = "transport" -> ret' = Panic /\ pc' = "direct"
               [] answer = "rate" -> UNCHANGED <<pc, ret>>
               [] OTHER -> pc' = "range" /\ ret' = ret
    /\ UNCHANGED <<openPr, lineNo, rs, newPackages, existingPackages, todo,
                   soNameErrors, result, fs, log>>
    /\ UNCHANGED <<envVars, call>>

-----------------------------------------------------------------------------
(* The calls the pull-request client is run on. *)

s_1_10 == <<"1", ".", "1", "0">>

\* titles of the pull requests open on the server
PullTitles ==
    {<<"l", "i", "b", "f", "o", "o", "/", "1", ".", "2", " ", "b", "u", "m", "p">>,
     <<"l", "i", "b", "f", "o", "o", "/", "1", ".", "2", "0", " ", "b", "u", "m", "p">>,
     <<"l", "i", "b", "f", "o", "o", "/", "1", ".", "1", " ", "b", "u", "m", "p">>,
     <<"l", "i", "b", "f", "o", "o", "/", "1", ".", "9">>,
     <<"l", "i", "b", "b", "a", "r", "/", "1", ".", "1", " ", "b", "u", "m", "p">>,
     <<"l", "i", "b", "f", "o", "o", "/", "a", "b", "c", " ", "b", "u", "m", "p">>}

PullRequestCalls ==
    {[fn |-> "OpenPullRequest", Retries |-> n,
      Title |-> <<"l", "i", "b", "f", "o", "o", "/", "1", ".", "2", " ", "b", "u", "m", "p">>] :
        n \in {0, MaxPullRequestRetries + 1}}
    \cup {[fn |-> "CheckExistingPullRequests", Retries |-> 0,
           PackageName |-> s_libfoo, Version |-> v] : v \in {s_1_2, s_1_10}}

InitPullRequests ==
    /\ pc = "direct"
    /\ NoRun
    /\ NoEnv
    /\ fs = {}
    /\ openPullRequests = <<>>
    /\ openPr = 0
    /\ call \in PullRequestCalls
    /\ pr = [Retries |-> call.Retries]
    /\ \E mode \in {"limited", "edits limited", "any"} :
       \E k \in 0..MaxOpen :
       \E titles \in [1..k -> PullTitles] :
          github = [mode |-> mode,
                    pulls |-> [i \in 1..k |->
                                 [Number |-> i, Title |-> titles[i], State |-> "open",
                                  HTMLURL |-> HTMLURL(i)]],
                    requests |-> <<>>]

NextPullRequests ==
    \/ OpenPullRequest
    \/ ListPullRequests
    \/ RangeOpenPr
    \/ closePullRequest

SpecPullRequests == InitPullRequests /\ [][NextPullRequests]_vars

\* an activation of OpenPullRequest that can run does run: the function calls
\* itself after the delay and waits for nothing else
FairPullRequests == SpecPullRequests /\ WF_vars(OpenPullRequest)

-----------------------------------------------------------------------------
(* Properties of the pull-request client. *)

\* the requests of kind op the server has received
Attempts(op) == {k \in DOMAIN github.requests : github.requests[k].op = op}

\* OpenPullRequest was called with pr.Retries = 0 on a server that answers
\* every request with a rate-limit error
OpenLimited ==
    /\ call.fn = "OpenPullRequest"
    /\ call.Retries = 0
    /\ github.mode = "limited"

\* C13: called with pr.Retries = 0 on a server that answers every create call
\* with a rate-limit error, OpenPullRequest makes at most
\* MaxPullRequestRetries + 1 create calls, pr.Retries is the number of
\* rate-limited attempts made, and the call ends, with the error 'failed max
\* number of retries'.
C13_OpenBounded ==
    /\ [](OpenLimited =>
             /\ Cardinality(Attempts("Create")) <= MaxPullRequestRetries + 1
             /\ pr.Retries = Cardinality(Attempts("Create"))
             /\ ret # None =>
                   /\ ret = MaxRetriesError
                   /\ Cardinality(Attempts("Create")) = MaxPullRequestRetries + 1)
    /\ (OpenLimited ~> (ret # None))

\* the call under rate limiting has ended after MaxPullRequestRetries + 1
\* create calls
C13_Witness ==
    /\ OpenLimited
    /\ ret = MaxRetriesError
    /\ pr.Retries = MaxPullRequestRetries + 1
    /\ Cardinality(Attempts("Create")) = MaxPullRequestRetries + 1

\* the close requests sent for pull request number n
CloseAttempts(n) == {k \in Attempts("Edit") : github.requests[k].Number = n}

\* C14: on a server that answers with rate-limit errors, the listing of
\* CheckExistingPullRequests and the edit of closePullRequest are each tried
\* at most MaxPullRequestRetries + 1 times, and what CheckExistingPullRequests
\* returns when every request was rate-limited is an error.
C14_RetriesBounded ==
    (call.fn = "CheckExistingPullRequests"
       /\ github.mode \in {"limited", "edits limited"}) =>
        /\ Cardinality(Attempts("List")) <= MaxPullRequestRetries + 1
        /\ \A i \in DOMAIN github.pulls :
              Cardinality(CloseAttempts(i)) <= MaxPullRequestRetries + 1
        /\ (github.mode = "limited" /\ ret # None) => ret.err # Nil

\* title is that of a pull request for exactly package name at version version
IsFor(title, name, version) ==
    \/ title = name \o <<"/">> \o version
    \/ HasPrefix(title, name \o <<"/">> \o version \o <<" ">>)

\* title is 'name/<older version> ...': what follows "name/" up to the first
\* space parses as a version, and that version is lower than version
IsForOlder(title, name, version) ==
    /\ HasPrefix(title, name \o <<"/">>)
    /\ LET rest == Sub(title, Len(name) + 2, Len(title))
           token == Split(rest, " ")[1]
       IN /\ NewVersion(token).ok
          /\ NewVersion(version).ok
          /\ LessThan(NewVersion(token), NewVersion(version))

\* C15: when CheckExistingPullRequests returns without error, the URL it
\* returns, if any, is that of a listed pull request for exactly the package
\* at the version, and every listed pull request for the package at an older
\* version has been sent a close request, wherever it is in the listing.
C15_SameOrClosed ==
    (Returned /\ call.fn = "CheckExistingPullRequests" /\ ret.err = Nil) =>
        /\ ret.url # <<>> =>
              \E i \in DOMAIN openPullRequests :
                 /\ openPullRequests[i].HTMLURL = ret.url
                 /\ IsFor(openPullRequests[i].Title, call.PackageName, call.Version)
        /\ \A i \in DOMAIN openPullRequests :
              IsForOlder(openPullRequests[i].Title, call.PackageName, call.Version)
                 => CloseAttempts(openPullRequests[i].Number) # {}

=============================================================================
